---- MODULE Spec2Model ----
(***************************************************************************)
(* Model of the GubbinsMOS bitmap font generator                           *)
(* (src/displays/common/tools/gmos-display-fontgen.py): the BDF font       *)
(* parser (parseFontBDF, parseFontCharBDF) and the C array encoder          *)
(* (formatStandardAsciiCode, formatFontData).                               *)
(*                                                                         *)
(* Text is modelled as it is read: a token is a sequence of one-character  *)
(* strings, a line is a keyword and the tokens that follow it.  Python's   *)
(* unbounded integers that are used as bit fields (sourceData, charData)   *)
(* are modelled as the set of the positions of their 1 bits.               *)
(***************************************************************************)
EXTENDS Integers, Sequences, FiniteSets, TLC

VARIABLES
    pc,         \* "start" | "chars" | "parsed" | "encoded" | "failed"
    fontDef,    \* the fontDef dictionary built by parseFontBDF
    charLines,  \* the charLines argument of the latest parseFontCharBDF call
    charResult, \* how that call ended: "none" | "stored" | "skipped" | "raised"
    nChars,     \* number of glyph blocks read so far
    output,     \* what formatStandardAsciiCode returned
    fileLine    \* what parseFontBDF's latest next(lineIter) gave: a line, or
                \* the end of the file (kw = "EOF", StopIteration)

vars == <<pc, fontDef, charLines, charResult, nChars, output, fileLine>>

\* Number of glyph blocks of one font file.
MaxChars == 2

(***************************************************************************)
(* Text conversions.                                                       *)
(***************************************************************************)
DecChars == <<"0", "1", "2", "3", "4", "5", "6", "7", "8", "9">>

HexChars == <<"0", "1", "2", "3", "4", "5", "6", "7", "8", "9",
              "A", "B", "C", "D", "E", "F">>

HexCharsLower == <<"0", "1", "2", "3", "4", "5", "6", "7", "8", "9",
                   "a", "b", "c", "d", "e", "f">>

Range(s) == {s[i] : i \in 1..Len(s)}

DecCharSet == Range(DecChars)

HexCharSet == Range(HexChars) \cup Range(HexCharsLower)

DecVal(c) == (CHOOSE d \in 1..10 : DecChars[d] = c) - 1

HexVal(c) ==
    IF c \in Range(HexChars)
    THEN (CHOOSE d \in 1..16 : HexChars[d] = c) - 1
    ELSE (CHOOSE d \in 1..16 : HexCharsLower[d] = c) - 1

IsDecimal(tok) ==
    Len(tok) >= 1 /\ \A i \in 1..Len(tok) : tok[i] \in DecCharSet

RECURSIVE DecMagnitude(_)
DecMagnitude(tok) ==
    IF tok = <<>> THEN 0
    ELSE 10 * DecMagnitude(SubSeq(tok, 1, Len(tok) - 1)) + DecVal(tok[Len(tok)])

\* int(text): whether the conversion succeeds (no ValueError).
IntOk(tok) ==
    IF Len(tok) >= 1 /\ tok[1] \in {"-", "+"}
    THEN IsDecimal(Tail(tok))
    ELSE IsDecimal(tok)

\* int(text): the value, for a text IntOk accepts.
IntVal(tok) ==
    IF tok[1] = "-" THEN 0 - DecMagnitude(Tail(tok))
    ELSE IF tok[1] = "+" THEN DecMagnitude(Tail(tok))
    ELSE DecMagnitude(tok)

\* [int(bt) for bt in fields] succeeds.
IntsOk(fields) == \A i \in 1..Len(fields) : IntOk(fields[i])

IntVals(fields) == [i \in 1..Len(fields) |-> IntVal(fields[i])]

\* int(line, 16) succeeds.
HexOk(tok) ==
    /\ Len(tok) >= 1
    /\ \A i \in 1..Len(tok) : tok[i] \in HexCharSet

\* int(line, 16): the positions of the 1 bits of the value.
HexBits(tok) ==
    {4 * (Len(tok) - p) + b : <<p, b>> \in
        {x \in (1..Len(tok)) \X (0..3) : (HexVal(tok[x[1]]) \div (2 ^ x[2])) % 2 = 1}}

(***************************************************************************)
(* Bit operations on sourceData and charData.                              *)
(***************************************************************************)
ShiftLeft(bits, k) == {i + k : i \in bits}

ShiftRight(bits, k) == {i - k : i \in {j \in bits : j >= k}}

\* Faulty variant of ReverseBits32: the loop makes 31 steps instead of 32.
ReverseBits31(bits) == {30 - j : j \in bits \cap (0..30)}

\* The 32 step loop that moves bit j of sourceData to bit 31 - j of charData.

ReverseBits32(bits) == {31 - j : j \in bits \cap (0..31)}

RECURSIVE BitsValue(_, _, _)
BitsValue(bits, lo, n) ==
    IF n = 0 THEN 0
    ELSE (IF lo + n - 1 \in bits THEN 2 ^ (n - 1) ELSE 0) + BitsValue(bits, lo, n - 1)

\* (charData >> (8 * k)) & 0xFF
ByteOf(bits, k) == BitsValue(bits, 8 * k, 8)

\* The left shift that puts the glyph's own row bytes at the top of 32 bits.
SourceShift(glyphWidth) ==
    IF glyphWidth <= 8 THEN 24
    ELSE IF glyphWidth <= 16 THEN 16
    ELSE IF glyphWidth <= 24 THEN 8
    ELSE 0

\* Number of bytes parseFontCharBDF appends for one row of the cell.
RowBytes(fontWidth) ==
    1 + (IF fontWidth > 8 THEN 1 ELSE 0) + (IF fontWidth > 16 THEN 1 ELSE 0)
      + (IF fontWidth > 24 THEN 1 ELSE 0)

\* The bytes appended for a padding row.
BlankRow(fontWidth) == [k \in 1..RowBytes(fontWidth) |-> 0]

\* The bytes appended for a row read from a hexadecimal line.
PackRow(sourceBits, glyphWidth, padLeft, fontWidth) ==
    LET shifted  == ShiftRight(ShiftLeft(sourceBits, SourceShift(glyphWidth)), padLeft)
        charData == ReverseBits32(shifted)
    IN  [k \in 1..RowBytes(fontWidth) |-> ByteOf(charData, k - 1)]

(***************************************************************************)
(* The font definition.                                                    *)
(***************************************************************************)
EmptyMap == [x \in {} |-> 0]

MapPut(m, k, v) == [x \in DOMAIN m \cup {k} |-> IF x = k THEN v ELSE m[x]]

NoFontDef ==
    [fontWidth |-> 0, fontHeight |-> 0, fontBaseline |-> 0,
     fontMonospaced |-> FALSE, charSet |-> EmptyMap, charWidths |-> EmptyMap]

(***************************************************************************)
(* parseFontCharBDF.                                                       *)
(***************************************************************************)
\* The locals of parseFontCharBDF before the first line is read.
ScanStart(fd) ==
    [outcome |-> "scan", next |-> 1, codePoint |-> -1,
     padUpper |-> 0, padLower |-> 0, padLeft |-> 0, padRight |-> 0,
     charWidth |-> fd.fontWidth, hasBounds |-> FALSE, bounds |-> <<>>,
     fontMonospaced |-> fd.fontMonospaced]

\* Faulty variant of SkipsGlyph: the y offset is tested instead of the x offset.
SkipsGlyphY(bounds) == bounds[4] < 0

\* if bounds[2] < 0: return (negative x offset: the glyph is skipped).

SkipsGlyph(bounds) == bounds[3] < 0

\* Faulty variant of PadLower: the y offset is subtracted.
PadLowerNegated(fontBaseline, bounds) == fontBaseline - bounds[4]

\* padLower = fontBaseline + bounds[3]

PadLower(fontBaseline, bounds) == fontBaseline + bounds[4]

\* The BBX branch: the paddings of the glyph in the cell, or the early return.
ScanBBX(fd, st, fields) ==
    IF ~IntsOk(fields) \/ Len(fields) < 3 THEN [st EXCEPT !.outcome = "raised"]
    ELSE LET bounds == IntVals(fields) IN
         IF SkipsGlyph(bounds)
         THEN [st EXCEPT !.outcome = "skipped", !.hasBounds = TRUE, !.bounds = bounds]
         ELSE IF Len(fields) < 4 THEN [st EXCEPT !.outcome = "raised"]
         ELSE LET padLeft  == bounds[3]
                  padLower == PadLower(fd.fontBaseline, bounds)
              IN  [st EXCEPT !.hasBounds = TRUE, !.bounds = bounds,
                             !.padLeft = padLeft,
                             !.padRight = fd.fontWidth - padLeft - bounds[1],
                             !.padLower = padLower,
                             !.padUpper = fd.fontHeight - padLower - bounds[2]]

\* Faulty variant of ScanDWIDTH: only a wider glyph clears the monospaced flag.
ScanDWIDTHWider(fd, st, fields) ==
    IF ~IntsOk(fields) \/ Len(fields) < 1 THEN [st EXCEPT !.outcome = "raised"]
    ELSE LET charWidth == IntVal(fields[1]) IN
         [st EXCEPT !.charWidth = charWidth,
                    !.fontMonospaced = IF charWidth > fd.fontWidth THEN FALSE ELSE @]

\* The DWIDTH branch: the advance width, and the monospaced flag of the font.
ScanDWIDTH(fd, st, fields) ==
    IF ~IntsOk(fields) \/ Len(fields) < 1 THEN [st EXCEPT !.outcome = "raised"]
    ELSE LET charWidth == IntVal(fields[1]) IN
         [st EXCEPT !.charWidth = charWidth,
                    !.fontMonospaced = IF charWidth # fd.fontWidth THEN FALSE ELSE @]

\* The ENCODING branch.
ScanENCODING(st, fields) ==
    IF Len(fields) < 1 \/ ~IntOk(fields[1]) THEN [st EXCEPT !.outcome = "raised"]
    ELSE [st EXCEPT !.codePoint = IntVal(fields[1])]

\* The loop over the lines up to BITMAP.
RECURSIVE ScanHeader(_, _, _)
ScanHeader(fd, lines, st) ==
    IF st.outcome # "scan" THEN st
    ELSE IF st.next > Len(lines) THEN [st EXCEPT !.outcome = "raised"]
    ELSE LET line == lines[st.next]
             at   == [st EXCEPT !.next = @ + 1]
         IN  IF line.kw = "BITMAP" THEN [at EXCEPT !.outcome = "bitmap"]
             ELSE IF line.kw = "ENCODING"
                  THEN ScanHeader(fd, lines, ScanENCODING(at, line.fields))
             ELSE IF line.kw = "BBX"
                  THEN ScanHeader(fd, lines, ScanBBX(fd, at, line.fields))
             ELSE IF line.kw = "DWIDTH"
                  THEN ScanHeader(fd, lines, ScanDWIDTH(fd, at, line.fields))
             ELSE ScanHeader(fd, lines, at)

\* The loop over the rows of the cell, from row i on.  A line that is not a
\* hexadecimal number (the ENDCHAR line when the rows run out), or a row read
\* when no BBX line set bounds, raises.
RECURSIVE PackRows(_, _, _, _, _, _)
PackRows(fd, lines, st, i, next, charBytes) ==
    IF i >= fd.fontHeight THEN [ok |-> TRUE, charBytes |-> charBytes]
    ELSE IF (i < st.padUpper) \/ (i >= fd.fontHeight - st.padLower)
         THEN PackRows(fd, lines, st, i + 1, next, charBytes \o BlankRow(fd.fontWidth))
    ELSE IF next > Len(lines) THEN [ok |-> FALSE, charBytes |-> charBytes]
    ELSE LET line == lines[next] IN
         IF line.kw # "HEX" \/ ~HexOk(line.fields[1]) \/ ~st.hasBounds
         THEN [ok |-> FALSE, charBytes |-> charBytes]
         ELSE PackRows(fd, lines, st, i + 1, next + 1,
                       charBytes \o PackRow(HexBits(line.fields[1]), st.bounds[1],
                                            st.padLeft, fd.fontWidth))

\* The insertion into the glyph mapping, made inside the loop over the rows:
\* a font of height 0 gets no entry.
StoreChar(fd, codePoint, charBytes, charWidth) ==
    IF fd.fontHeight > 0
    THEN [fd EXCEPT !.charSet = MapPut(@, codePoint, charBytes),
                    !.charWidths = MapPut(@, codePoint, charWidth)]
    ELSE fd

\* parseFontCharBDF(fontDef, charLines): how the call ends and the fontDef it
\* leaves ("raised": the exception ends the run and the fontDef is dropped).
ParseFontCharBDF(fd, lines) ==
    LET st  == ScanHeader(fd, lines, ScanStart(fd))
        fd1 == [fd EXCEPT !.fontMonospaced = st.fontMonospaced]
    IN  IF st.outcome = "raised" THEN [result |-> "raised", fontDef |-> NoFontDef]
        ELSE IF st.outcome = "skipped" THEN [result |-> "skipped", fontDef |-> fd1]
        ELSE LET rows == PackRows(fd1, lines, st, 0, st.next, <<>>) IN
             IF ~rows.ok THEN [result |-> "raised", fontDef |-> NoFontDef]
             ELSE [result |-> "stored",
                   fontDef |-> StoreChar(fd1, st.codePoint, rows.charBytes,
                                         st.charWidth)]

(***************************************************************************)
(* parseFontBDF.                                                           *)
(***************************************************************************)
\* The FONTBOUNDINGBOX branch: the fontDef the header leaves, or the exception
\* of a field that is no number or is missing.
ParseFontBoundingBox(fields) ==
    IF ~IntsOk(fields) \/ Len(fields) < 4 THEN [result |-> "raised", fontDef |-> NoFontDef]
    ELSE LET bounds == IntVals(fields) IN
         [result |-> "read",
          fontDef |-> [fontWidth |-> bounds[1], fontHeight |-> bounds[2],
                       fontBaseline |-> 0 - bounds[4], fontMonospaced |-> TRUE,
                       charSet |-> EmptyMap, charWidths |-> EmptyMap]]

(***************************************************************************)
(* formatFontData and formatStandardAsciiCode.                             *)
(***************************************************************************)
\* First and last codepoint of range(0x20, 0x7F).
FirstCodePoint == 32

LastCodePoint == 126

\* The codepoint of the glyph that stands in for an undefined character.
SpaceCodePoint == 32

\* codePointList of formatStandardAsciiCode.
StandardAsciiCodePoints == [k \in 1..(LastCodePoint - FirstCodePoint + 1) |-> FirstCodePoint + k - 1]

\* Faulty variant of WidthBytes: (width // 8) + 1, one too many for a
\* multiple of 8.
WidthBytesFloor(width) == (width \div 8) + 1

\* ((width - 1) // 8) + 1, the number of bytes of a row of that width.

WidthBytes(width) == ((width - 1) \div 8) + 1

\* The width written to the width array for a codepoint.
CharWidthOf(fd, codePoint) ==
    IF codePoint \in DOMAIN fd.charWidths THEN fd.charWidths[codePoint]
    ELSE fd.fontWidth

\* The glyph whose data is copied for a codepoint (needs HasCharData).
CharDataOf(fd, codePoint) ==
    IF codePoint \in DOMAIN fd.charSet THEN fd.charSet[codePoint]
    ELSE fd.charSet[SpaceCodePoint]

\* charSet[0x20] of an undefined character does not raise KeyError.
HasCharData(fd, codePoint) ==
    codePoint \in DOMAIN fd.charSet \/ SpaceCodePoint \in DOMAIN fd.charSet

\* Index into charData of octet j of row i.
CharDataIndex(fontWidth, i, j) == i * WidthBytes(fontWidth) + j

\* The pairs (i, j) of the two copy loops, in the order the loops visit them.
CopyOrder(fontHeight, charWidth) ==
    [n \in 1..(fontHeight * WidthBytes(charWidth)) |->
        <<(n - 1) \div WidthBytes(charWidth), (n - 1) % WidthBytes(charWidth)>>]

\* Every index the copy loops read is inside charData (no IndexError).
CopyInRange(fd, charData, charWidth) ==
    \/ fd.fontHeight <= 0
    \/ WidthBytes(charWidth) <= 0
    \/ CharDataIndex(fd.fontWidth, fd.fontHeight - 1, WidthBytes(charWidth) - 1)
           < Len(charData)

\* Faulty variant of CopyCharData: every octet of the glyph is copied.
CopyCharDataUntrimmed(fd, charData, charWidth) == charData

\* The octets copied for one codepoint, trimmed to the width of the character.

CopyCharData(fd, charData, charWidth) ==
    IF fd.fontHeight <= 0 \/ WidthBytes(charWidth) <= 0 THEN <<>>
    ELSE LET order == CopyOrder(fd.fontHeight, charWidth) IN
         [n \in 1..Len(order) |->
             charData[CharDataIndex(fd.fontWidth, order[n][1], order[n][2]) + 1]]

\* Faulty variant of NextCharIndex: one step for a character, not for an octet.
NextCharIndexPerChar(charIndex, octets) == charIndex + 1

\* charIndex += 1 for every octet copied.

NextCharIndex(charIndex, octets) == charIndex + Len(octets)

\* The state of the loop over codePointList before its first pass.
FormatStart ==
    [ok |-> TRUE, charData |-> <<>>, charWidths |-> <<>>, charIndexes |-> <<>>,
     charIndex |-> 0, omitCharIndex |-> TRUE]

\* One pass of the loop over codePointList.  charData keeps one sequence of
\* octets per codepoint, as the generated text keeps one line per codepoint.
FormatChar(fd, acc, codePoint) ==
    LET charWidth == CharWidthOf(fd, codePoint) IN
    IF ~HasCharData(fd, codePoint) THEN [acc EXCEPT !.ok = FALSE]
    ELSE LET charData == CharDataOf(fd, codePoint) IN
         IF ~CopyInRange(fd, charData, charWidth) THEN [acc EXCEPT !.ok = FALSE]
         ELSE LET octets == CopyCharData(fd, charData, charWidth) IN
              [acc EXCEPT !.charIndexes = Append(@, acc.charIndex),
                          !.charWidths = Append(@, charWidth),
                          !.omitCharIndex =
                              IF WidthBytes(charWidth) # WidthBytes(fd.fontWidth)
                              THEN FALSE ELSE @,
                          !.charData = Append(@, octets),
                          !.charIndex = NextCharIndex(@, octets)]

RECURSIVE FormatLoop(_, _, _, _)
FormatLoop(fd, codePointList, n, acc) ==
    IF n > Len(codePointList) \/ ~acc.ok THEN acc
    ELSE FormatLoop(fd, codePointList, n + 1, FormatChar(fd, acc, codePointList[n]))

\* Faulty variant of TemplateOf: omitCharIndex is not looked at.
TemplateOfNoIndex(fontMonospaced, omitCharIndex) ==
    IF fontMonospaced THEN "monospaced" ELSE "proportional"

\* The template the generated source is written with.

TemplateOf(fontMonospaced, omitCharIndex) ==
    IF fontMonospaced THEN "monospaced"
    ELSE IF omitCharIndex THEN "proportional"
    ELSE "proportionalIndexed"

\* What a template holds: the arrays the font definition structure refers to
\* (an array that is not in the template is NULL there, and empty here).
FillTemplate(template, acc) ==
    [status |-> "written", template |-> template,
     charData |-> acc.charData,
     charWidths |-> IF template = "monospaced" THEN <<>> ELSE acc.charWidths,
     charIndexes |-> IF template = "proportionalIndexed" THEN acc.charIndexes ELSE <<>>]

NoOutput ==
    [status |-> "none", template |-> "none", charData |-> <<>>,
     charWidths |-> <<>>, charIndexes |-> <<>>]

RaisedOutput == [NoOutput EXCEPT !.status = "raised"]

\* formatFontData(fontDef, fontEncoding, codePointList).
FormatFontData(fd, codePointList) ==
    LET acc == FormatLoop(fd, codePointList, 1, FormatStart) IN
    IF ~acc.ok THEN RaisedOutput
    ELSE FillTemplate(TemplateOf(fd.fontMonospaced, acc.omitCharIndex), acc)

\* formatStandardAsciiCode(fontDef).
FormatStandardAsciiCode(fd) == FormatFontData(fd, StandardAsciiCodePoints)

(***************************************************************************)
(* The font files read: FONTBOUNDINGBOX lines and glyph blocks.            *)
(***************************************************************************)
\* The decimal text of a number.
RECURSIVE DecText(_)
DecText(n) ==
    IF n < 0 THEN <<"-">> \o DecText(0 - n)
    ELSE IF n < 10 THEN <<DecChars[n + 1]>>
    ELSE DecText(n \div 10) \o <<DecChars[(n % 10) + 1]>>

DecTexts(ns) == [i \in 1..Len(ns) |-> DecText(ns[i])]

Line(kw, fields) == [kw |-> kw, fields |-> fields]

HexLines(rows) == [i \in 1..Len(rows) |-> Line("HEX", <<rows[i]>>)]

\* The lines from STARTCHAR to ENDCHAR that parseFontBDF hands over.
CharBlock(declarations, rows) ==
    <<Line("STARTCHAR", <<>>)>> \o declarations \o <<Line("BITMAP", <<>>)>>
        \o HexLines(rows) \o <<Line("ENDCHAR", <<>>)>>

\* The fields of the FONTBOUNDINGBOX lines: width, height, x offset, y offset.
FontBoundingBoxes ==
    { DecTexts(<<8, 8, 0, -1>>), DecTexts(<<12, 2, 0, -1>>),
      DecTexts(<<8, 2, 0, 0>>), DecTexts(<<40, 1, 0, 0>>),
      <<<<"8">>, <<"x">>, <<"0">>, <<"0">>>> }

\* BBX fields and bitmap rows of the glyphs.
GlyphShapes ==
    { [bbx |-> <<8, 6, 0, -1>>,
       rows |-> << <<"3", "C">>, <<"4", "2">>, <<"4", "2">>,
                   <<"7", "E">>, <<"4", "2">>, <<"4", "2">> >>],
      [bbx |-> <<0, 0, 0, 0>>, rows |-> <<>>],
      [bbx |-> <<3, 1, 1, 0>>, rows |-> << <<"A", "0">> >>],
      [bbx |-> <<10, 2, 1, -1>>,
       rows |-> << <<"A", "0", "4", "0">>, <<"0", "1", "8", "0">> >>],
      [bbx |-> <<3, 1, -1, 0>>, rows |-> << <<"A", "0">> >>] }

CodePoints == {32, 65}

AdvanceWidths == {6, 8, 10}

EncodingLine(c) == Line("ENCODING", <<DecText(c)>>)

DwidthLine(d) == Line("DWIDTH", DecTexts(<<d, 0>>))

BbxLine(b) == Line("BBX", DecTexts(b))

\* Blocks with the three declarations in the order BDF files write them.
PlainBlocks ==
    { CharBlock(<<EncodingLine(c), DwidthLine(d), BbxLine(s.bbx)>>, s.rows) :
        <<c, d, s>> \in CodePoints \X AdvanceWidths \X GlyphShapes }

\* Blocks with a declaration left out, in another order, with a field that is
\* no number, or with too few, too many or badly padded bitmap rows.
OddBlocks ==
    LET a0 == << <<"A", "0">> >>
        enc == EncodingLine(65)
    IN
    { CharBlock(<<EncodingLine(32), BbxLine(<<0, 0, 0, 0>>)>>, <<>>),
      CharBlock(<<enc, BbxLine(<<3, 1, 1, 0>>)>>, a0),
      CharBlock(<<DwidthLine(8), BbxLine(<<3, 1, 1, 0>>)>>, a0),
      CharBlock(<<enc, DwidthLine(8)>>, a0),
      CharBlock(<<enc, BbxLine(<<3, 1, -1, 0>>), DwidthLine(6)>>, a0),
      CharBlock(<<BbxLine(<<3, 1, -1, 0>>), enc, DwidthLine(6)>>, a0),
      CharBlock(<<BbxLine(<<3, 1, 1, 0>>), DwidthLine(6), enc>>, a0),
      CharBlock(<<Line("ENCODING", << <<"x">> >>), DwidthLine(8), BbxLine(<<3, 1, -1, 0>>)>>, a0),
      CharBlock(<<enc, DwidthLine(8), Line("BBX", << <<"3">>, <<"1">>, <<"x">>, <<"0">> >>)>>, a0),
      CharBlock(<<enc, Line("DWIDTH", << <<"x">>, <<"0">> >>), BbxLine(<<3, 1, 1, 0>>)>>, a0),
      CharBlock(<<enc, DwidthLine(8), BbxLine(<<3, 2, 0, 0>>)>>, a0),
      CharBlock(<<enc, DwidthLine(8), BbxLine(<<3, 1, 0, 0>>)>>, << <<"A", "0">>, <<"F", "F">> >>),
      CharBlock(<<enc, DwidthLine(8), BbxLine(<<3, 1, 0, 0>>)>>, << <<"F", "F">> >>),
      CharBlock(<<enc, DwidthLine(8), BbxLine(<<3, 1, 0, 0>>)>>, << <<"G", "0">> >>) }

CharBlocks == PlainBlocks \cup OddBlocks

\* Lines of the header of the file after the first FONTBOUNDINGBOX line: a
\* second FONTBOUNDINGBOX line and the CHARS line.
OtherLines ==
    { Line("FONTBOUNDINGBOX", DecTexts(<<16, 16, 0, -2>>)),
      Line("CHARS", DecTexts(<<2>>)) }

(***************************************************************************)
(* The run: parseFontBDF reads the header and the glyph blocks up to       *)
(* ENDFONT, then formatStandardAsciiCode encodes the font.                 *)
(***************************************************************************)
Init ==
    /\ pc = "start"
    /\ fontDef = NoFontDef
    /\ charLines = <<>>
    /\ charResult = "none"
    /\ nChars = 0
    /\ output = NoOutput
    /\ fileLine = Line("", <<>>)

\* parseFontBDF up to the first FONTBOUNDINGBOX line.
ReadFontBoundingBox ==
    /\ pc = "start"
    /\ \E fields \in FontBoundingBoxes :
          LET r == ParseFontBoundingBox(fields) IN
          /\ pc' = IF r.result = "raised" THEN "failed" ELSE "chars"
          /\ fontDef' = r.fontDef
          /\ fileLine' = Line("FONTBOUNDINGBOX", fields)
    /\ UNCHANGED <<charLines, charResult, nChars, output>>

\* The loop over the characters reads a line that starts neither with ENDFONT
\* nor with STARTCHAR, and goes on to the next line.  The files read here have
\* such lines between FONTBOUNDINGBOX and the first glyph block.
ReadOtherLine ==
    /\ pc = "chars"
    /\ nChars = 0
    /\ \E line \in OtherLines : fileLine' = line
    /\ UNCHANGED <<pc, fontDef, charLines, charResult, nChars, output>>

\* Faulty variant of EndOfFile: the end of the file is taken for ENDFONT.
EndOfFileReturns ==
    /\ pc \in {"start", "chars"}
    /\ pc' = "parsed"
    /\ fileLine' = Line("EOF", <<>>)
    /\ charLines' = <<>>
    /\ charResult' = "none"
    /\ UNCHANGED <<fontDef, nChars, output>>

\* next(lineIter) raises StopIteration: the file ends before a FONTBOUNDINGBOX
\* line, or after it before an ENDFONT line.  Nothing catches it in
\* parseFontBDF, and no fontDef is returned.
EndOfFile ==
    /\ pc \in {"start", "chars"}
    /\ pc' = "failed"
    /\ fontDef' = NoFontDef
    /\ fileLine' = Line("EOF", <<>>)
    /\ UNCHANGED <<charLines, charResult, nChars, output>>

\* parseFontBDF reads one block from STARTCHAR to ENDCHAR and calls
\* parseFontCharBDF on it.
ParseChar ==
    /\ pc = "chars"
    /\ nChars < MaxChars
    /\ \E lines \in CharBlocks :
          LET r == ParseFontCharBDF(fontDef, lines) IN
          /\ charLines' = lines
          /\ charResult' = r.result
          /\ fontDef' = r.fontDef
          /\ pc' = IF r.result = "raised" THEN "failed" ELSE "chars"
          /\ fileLine' = lines[Len(lines)]
    /\ nChars' = nChars + 1
    /\ UNCHANGED output

\* parseFontBDF reads ENDFONT and returns fontDef.
EndFont ==
    /\ pc = "chars"
    /\ pc' = "parsed"
    /\ charLines' = <<>>
    /\ charResult' = "none"
    /\ fileLine' = Line("ENDFONT", <<>>)
    /\ UNCHANGED <<fontDef, nChars, output>>

\* main writes formatStandardAsciiCode(fontDef) to the code file.
Encode ==
    /\ pc = "parsed"
    /\ output' = FormatStandardAsciiCode(fontDef)
    /\ pc' = IF output'.status = "raised" THEN "failed" ELSE "encoded"
    /\ UNCHANGED <<fontDef, charLines, charResult, nChars, fileLine>>

Next ==
    ReadFontBoundingBox \/ ReadOtherLine \/ EndOfFile \/ ParseChar \/ EndFont \/ Encode

Spec == Init /\ [][Next]_vars

\* ------------------------------------------------------------------------
\* Files that hold one glyph block for every codepoint of the output range,
\* in the order of the codepoints, all blocks with the same advance width.

FullFontWidths == {6, 40}

FullFontBlock(c, d) ==
    CharBlock(<<EncodingLine(c), DwidthLine(d), BbxLine(<<3, 1, 1, 0>>)>>,
              << <<"A", "0">> >>)

\* parseFontBDF reads the block of the next codepoint and calls
\* parseFontCharBDF on it.
ParseNextChar ==
    /\ pc = "chars"
    /\ nChars < Len(StandardAsciiCodePoints)
    /\ \E d \in FullFontWidths :
          /\ nChars > 0 => d = fontDef.charWidths[FirstCodePoint]
          /\ LET lines == FullFontBlock(StandardAsciiCodePoints[nChars + 1], d)
                 r == ParseFontCharBDF(fontDef, lines)
             IN  /\ charLines' = lines
                 /\ charResult' = r.result
                 /\ fontDef' = r.fontDef
                 /\ pc' = IF r.result = "raised" THEN "failed" ELSE "chars"
                 /\ fileLine' = lines[Len(lines)]
    /\ nChars' = nChars + 1
    /\ UNCHANGED output

NextFullFont == ReadFontBoundingBox \/ ParseNextChar \/ EndFont \/ Encode

SpecFullFont == Init /\ [][NextFullFont]_vars

(***************************************************************************)
(* Properties.  The definitions below state what is expected of the        *)
(* program in terms of the font file read and the arrays written; they do  *)
(* not use the operators that model the code above, except the text        *)
(* conversions DecText and HexVal.                                         *)
(***************************************************************************)
\* ceil(width / 8), by its defining property.
CeilDiv8(width) == CHOOSE n \in 0..64 : 8 * (n - 1) < width /\ width <= 8 * n

OutputRange == FirstCodePoint..LastCodePoint

\* Position of a codepoint of the output range in the arrays written.
Ordinal(c) == c - FirstCodePoint + 1

\* Number of octets written for the first k codepoints.
RECURSIVE BytesBefore(_, _)
BytesBefore(groups, k) ==
    IF k = 0 THEN 0 ELSE BytesBefore(groups, k - 1) + Len(groups[k])

\* The first n octets of each of the rows of a stored glyph, rows in order.
RECURSIVE LeadingOctets(_, _, _, _)
LeadingOctets(glyph, rows, stride, n) ==
    IF rows = 0 THEN <<>>
    ELSE LeadingOctets(glyph, rows - 1, stride, n)
            \o SubSeq(glyph, (rows - 1) * stride + 1, (rows - 1) * stride + n)

\* The glyph written for a codepoint: its own, or the space glyph.
SelectedGlyph(c) == IF c \in DOMAIN fontDef.charSet THEN c ELSE SpaceCodePoint

\* C1: when the glyph mapping holds the space glyph, every codepoint of the
\* output range that is absent from the mapping gets exactly the octets written
\* for codepoint 0x20 and, in the width table, the advance width of the space
\* glyph.
C1_AbsentCodepointIsSpace ==
    (pc = "encoded" /\ SpaceCodePoint \in DOMAIN fontDef.charSet) =>
        \A c \in OutputRange \ DOMAIN fontDef.charSet :
            /\ output.charData[Ordinal(c)] = output.charData[Ordinal(SpaceCodePoint)]
            /\ output.template # "monospaced" =>
                   output.charWidths[Ordinal(c)] = fontDef.charWidths[SpaceCodePoint]

\* Every glyph written has the byte-width class of the cell.
AllCellClass ==
    \A c \in OutputRange :
        CeilDiv8(fontDef.charWidths[SelectedGlyph(c)]) = CeilDiv8(fontDef.fontWidth)

\* C2: a monospaced font is written with the packed data only; a proportional
\* font whose written glyphs all have ceil(advanceWidth/8) = ceil(cellWidth/8)
\* with packed data and width table; any other font with packed data, width
\* table and offset index.  One of the three layouts is always chosen.
C2_LayoutChoice ==
    pc = "encoded" =>
        LET n == LastCodePoint - FirstCodePoint + 1 IN
        /\ Len(output.charData) = n
        /\ output.template \in {"monospaced", "proportional", "proportionalIndexed"}
        /\ output.template = "monospaced" <=> fontDef.fontMonospaced
        /\ output.template = "proportional" <=>
               (~fontDef.fontMonospaced /\ AllCellClass)
        /\ output.template = "proportionalIndexed" <=>
               (~fontDef.fontMonospaced /\ ~AllCellClass)
        /\ output.template = "monospaced" =>
               output.charWidths = <<>> /\ output.charIndexes = <<>>
        /\ output.template = "proportional" =>
               Len(output.charWidths) = n /\ output.charIndexes = <<>>
        /\ output.template = "proportionalIndexed" =>
               Len(output.charWidths) = n /\ Len(output.charIndexes) = n

\* A proportional font without index that holds a glyph narrower than the cell.
C2_Witness ==
    /\ pc = "encoded"
    /\ output.template = "proportional"
    /\ \E c \in DOMAIN fontDef.charWidths \cap OutputRange :
          fontDef.charWidths[c] # fontDef.fontWidth

\* C3: for every codepoint of the output range that is in the glyph mapping,
\* the octets written are, for the cellHeight rows in order, the first
\* ceil(advanceWidth/8) octets of the row's ceil(cellWidth/8) octets, and
\* nothing else.
C3_RowsTrimmed ==
    pc = "encoded" =>
        \A c \in OutputRange \cap DOMAIN fontDef.charSet :
            LET stride == CeilDiv8(fontDef.fontWidth)
                n      == CeilDiv8(fontDef.charWidths[c])
            IN  /\ n <= stride
                /\ output.charData[Ordinal(c)] =
                       LeadingOctets(fontDef.charSet[c], fontDef.fontHeight, stride, n)

\* A glyph of several rows is written with fewer octets a row than it is stored
\* with, and some octet written is not blank.
C3_Witness ==
    /\ pc = "encoded"
    /\ fontDef.fontHeight >= 2
    /\ \E c \in OutputRange \cap DOMAIN fontDef.charSet :
          /\ CeilDiv8(fontDef.charWidths[c]) < CeilDiv8(fontDef.fontWidth)
          /\ \E k \in 1..Len(output.charData[Ordinal(c)]) :
                output.charData[Ordinal(c)][k] # 0

\* C4: after parseFontBDF returns, every glyph of the mapping holds cellHeight
\* rows of ceil(cellWidth/8) octets.
C4_StoredGlyphSize ==
    pc = "parsed" =>
        \A c \in DOMAIN fontDef.charSet :
            Len(fontDef.charSet[c]) = fontDef.fontHeight * CeilDiv8(fontDef.fontWidth)

(***************************************************************************)
(* What a glyph block declares, read off its text.                         *)
(***************************************************************************)
DeclaredNumbers == -64..255

\* The decimal text of each of these numbers, and the number of each text.
NumberText == [n \in DeclaredNumbers |-> DecText(n)]

TextNumber ==
    [t \in {NumberText[n] : n \in DeclaredNumbers} |->
        CHOOSE n \in DeclaredNumbers : NumberText[n] = t]

IsNumber(tok) == tok \in DOMAIN TextNumber

Declared(tok) == TextNumber[tok]

LinesOf(lines, kw) == {i \in 1..Len(lines) : lines[i].kw = kw}

TheLine(lines, kw) == lines[CHOOSE i \in LinesOf(lines, kw) : TRUE]

\* Every field of every ENCODING, BBX and DWIDTH line is a number.
DeclarationsAreNumbers(lines) ==
    \A i \in LinesOf(lines, "ENCODING") \cup LinesOf(lines, "BBX")
                \cup LinesOf(lines, "DWIDTH") :
        \A k \in 1..Len(lines[i].fields) : IsNumber(lines[i].fields[k])

\* The block declares one codepoint and one bounding box of four numbers.
DeclaresGlyph(lines) ==
    /\ Cardinality(LinesOf(lines, "ENCODING")) = 1
    /\ Cardinality(LinesOf(lines, "BBX")) = 1
    /\ Cardinality(LinesOf(lines, "DWIDTH")) <= 1
    /\ Cardinality(LinesOf(lines, "BITMAP")) = 1
    /\ DeclarationsAreNumbers(lines)
    /\ Len(TheLine(lines, "ENCODING").fields) = 1
    /\ Len(TheLine(lines, "BBX").fields) = 4
    /\ \A i \in LinesOf(lines, "DWIDTH") : Len(lines[i].fields) >= 1

DeclaredCodePoint(lines) == Declared(TheLine(lines, "ENCODING").fields[1])

DeclaredBBX(lines) == [k \in 1..4 |-> Declared(TheLine(lines, "BBX").fields[k])]

\* The bitmap rows of the block: the lines between BITMAP and ENDCHAR.
BitmapRows(lines) ==
    LET first == (CHOOSE i \in LinesOf(lines, "BITMAP") : TRUE) + 1
        last  == (CHOOSE i \in LinesOf(lines, "ENDCHAR") : TRUE) - 1
    IN  [k \in 1..(last - first + 1) |-> lines[first + k - 1]]

\* Pixel x of a bitmap row, the leftmost pixel being the most significant bit.
SourcePixel(tok, x) ==
    /\ x < 4 * Len(tok)
    /\ (HexVal(tok[(x \div 4) + 1]) \div (2 ^ (3 - (x % 4)))) % 2 = 1

\* A bitmap row of a glyph of that width: the hexadecimal digits of its bytes,
\* blank to the right of the glyph.
WellFormedRow(line, glyphWidth) ==
    /\ line.kw = "HEX"
    /\ Len(line.fields[1]) = 2 * CeilDiv8(glyphWidth)
    /\ \A k \in 1..Len(line.fields[1]) : line.fields[1][k] \in Range(HexChars)
    /\ \A x \in glyphWidth..(4 * Len(line.fields[1]) - 1) : ~SourcePixel(line.fields[1], x)

\* The paddings of the glyph in the cell of the font.
CellPadLeft(lines) == DeclaredBBX(lines)[3]

CellPadLower(lines) == fontDef.fontBaseline + DeclaredBBX(lines)[4]

CellPadUpper(lines) == fontDef.fontHeight - CellPadLower(lines) - DeclaredBBX(lines)[2]

\* The bitmap of the glyph fits in the cell and has one well-formed row for
\* each row of the glyph.
FitsCell(lines) ==
    /\ DeclaresGlyph(lines)
    /\ DeclaredBBX(lines)[1] >= 0
    /\ DeclaredBBX(lines)[2] >= 0
    /\ CellPadLeft(lines) >= 0
    /\ CellPadLeft(lines) + DeclaredBBX(lines)[1] <= fontDef.fontWidth
    /\ fontDef.fontWidth <= 32
    /\ CellPadUpper(lines) >= 0
    /\ CellPadLower(lines) >= 0
    /\ Len(BitmapRows(lines)) = DeclaredBBX(lines)[2]
    /\ \A k \in 1..Len(BitmapRows(lines)) :
          WellFormedRow(BitmapRows(lines)[k], DeclaredBBX(lines)[1])

\* Bit (x mod 8) of octet (x div 8) of row y of a stored glyph.
CellBit(glyph, stride, y, x) ==
    (glyph[y * stride + (x \div 8) + 1] \div (2 ^ (x % 8))) % 2 = 1

\* The pixel of the glyph that belongs at column x of row y of the cell.
GlyphPixelAt(lines, y, x) ==
    /\ CellPadUpper(lines) <= y
    /\ y < fontDef.fontHeight - CellPadLower(lines)
    /\ CellPadLeft(lines) <= x
    /\ x < CellPadLeft(lines) + DeclaredBBX(lines)[1]
    /\ SourcePixel(BitmapRows(lines)[y - CellPadUpper(lines) + 1].fields[1],
                   x - CellPadLeft(lines))

\* C5: for a glyph whose bitmap fits in the cell, bit (x mod 8) of octet
\* (x div 8) of cell row y is 1 exactly when y and x lie inside the glyph as
\* placed by padUpper, padLower and padLeft and the pixel of the source bitmap
\* there is set; every other bit of the cell is 0.
C5_GlyphPlacedInCell ==
    (pc = "chars" /\ charResult = "stored" /\ FitsCell(charLines)) =>
        LET c      == DeclaredCodePoint(charLines)
            stride == CeilDiv8(fontDef.fontWidth)
        IN  /\ c \in DOMAIN fontDef.charSet
            /\ Len(fontDef.charSet[c]) = fontDef.fontHeight * stride
            /\ \A k \in 1..Len(fontDef.charSet[c]) : fontDef.charSet[c][k] \in 0..255
            /\ \A y \in 0..(fontDef.fontHeight - 1) : \A x \in 0..(8 * stride - 1) :
                  CellBit(fontDef.charSet[c], stride, y, x)
                      <=> GlyphPixelAt(charLines, y, x)

\* A glyph with padding on the left, above and below, and a pixel set.
C5_Witness ==
    /\ pc = "chars" /\ charResult = "stored" /\ FitsCell(charLines)
    /\ CellPadLeft(charLines) > 0
    /\ CellPadUpper(charLines) > 0
    /\ CellPadLower(charLines) > 0
    /\ \E k \in 1..Len(fontDef.charSet[DeclaredCodePoint(charLines)]) :
          fontDef.charSet[DeclaredCodePoint(charLines)][k] # 0

\* C6: in a layout without offset index, the octets of the k-th codepoint
\* written (k from 0) begin at offset k * cellHeight * ceil(cellWidth/8) of the
\* packed data.
C6_UniformStride ==
    (pc = "encoded" /\ output.template \in {"monospaced", "proportional"}) =>
        \A k \in 0..(Len(output.charData) - 1) :
            BytesBefore(output.charData, k) =
                k * fontDef.fontHeight * CeilDiv8(fontDef.fontWidth)

\* A proportional font without index, with two octets a row.
C6_Witness ==
    /\ pc = "encoded"
    /\ output.template = "proportional"
    /\ CeilDiv8(fontDef.fontWidth) = 2
    /\ Len(output.charData) = LastCodePoint - FirstCodePoint + 1

\* C7: the offset index, when written, has one entry for each codepoint in
\* codepoint order; entry k is the number of octets of packed data written for
\* the codepoints before the k-th, entry 0 is 0 and the entries never decrease.
C7_OffsetIndex ==
    (pc = "encoded" /\ output.template = "proportionalIndexed") =>
        /\ Len(output.charIndexes) = LastCodePoint - FirstCodePoint + 1
        /\ Len(output.charIndexes) = Len(output.charData)
        /\ output.charIndexes[1] = 0
        /\ \A k \in 1..Len(output.charIndexes) :
              output.charIndexes[k] = BytesBefore(output.charData, k - 1)
        /\ \A k \in 1..(Len(output.charIndexes) - 1) :
              output.charIndexes[k] <= output.charIndexes[k + 1]

\* An index over glyphs of different sizes.
C7_Witness ==
    /\ pc = "encoded"
    /\ output.template = "proportionalIndexed"
    /\ \E j, k \in 1..Len(output.charData) :
          Len(output.charData[j]) # Len(output.charData[k])

\* The font and the glyph block of the scenario of C8.
C8_Block ==
    CharBlock(<<Line("ENCODING", << <<"6", "5">> >>),
                Line("DWIDTH", << <<"8">>, <<"0">> >>),
                Line("BBX", << <<"8">>, <<"6">>, <<"0">>, <<"-", "1">> >>)>>,
              << <<"3", "C">>, <<"4", "2">>, <<"4", "2">>,
                 <<"7", "E">>, <<"4", "2">>, <<"4", "2">> >>)

C8_Parsed ==
    /\ pc = "chars" /\ charResult = "stored" /\ nChars = 1
    /\ fontDef.fontWidth = 8 /\ fontDef.fontHeight = 8 /\ fontDef.fontBaseline = 1
    /\ charLines = C8_Block

\* C8, as claimed: the glyph of the scenario is stored as row 0 blank, rows 1 to
\* 6 = 3C 42 42 7E 42 42, row 7 blank.
C8_AsClaimed ==
    C8_Parsed => fontDef.charSet[65] = <<0, 60, 66, 66, 126, 66, 66, 0>>

\* C8, amended: padLower = 1 + (-1) = 0 and padUpper = 8 - 0 - 6 = 2, so rows 0
\* and 1 are blank and rows 2 to 7 = 3C 42 42 7E 42 42.
C8_Amended ==
    C8_Parsed =>
        /\ DOMAIN fontDef.charSet = {65}
        /\ fontDef.charSet[65] = <<0, 0, 60, 66, 66, 126, 66, 66>>
        /\ fontDef.charWidths[65] = 8

C8_Witness == C8_Parsed /\ 65 \in DOMAIN fontDef.charSet

\* C9: encoding 0x20 to 0x7E from a font whose glyph mapping holds only
\* codepoint 0x41 completes, and the width table has 95 entries of which 94 are
\* the same width, that of the substituted glyph.
C9_OnlyLetterA ==
    (pc \in {"encoded", "failed"} /\ output.status # "none"
        /\ DOMAIN fontDef.charSet = {65} /\ ~fontDef.fontMonospaced) =>
        /\ output.status = "written"
        /\ Len(output.charWidths) = 95
        /\ \E w \in 0..255 :
              Cardinality({k \in 1..95 : k # Ordinal(65) /\ output.charWidths[k] = w}) = 94

\* The block read last declares a bounding box with a negative x offset.
NegativeOffsetBlock(lines) ==
    /\ DeclarationsAreNumbers(lines)
    /\ \E i \in LinesOf(lines, "BBX") :
          Len(lines[i].fields) >= 3 /\ Declared(lines[i].fields[3]) < 0

\* C10: a glyph block whose bounding box has a negative x offset leaves the
\* glyph mapping as it was (no entry added, an earlier entry of the codepoint
\* kept), raises nothing, and the next block can be read.
C10_NegativeOffsetSkipped ==
    [][(pc = "chars" /\ nChars' = nChars + 1 /\ NegativeOffsetBlock(charLines')) =>
          /\ charResult' = "skipped"
          /\ fontDef'.charSet = fontDef.charSet
          /\ fontDef'.charWidths = fontDef.charWidths
          /\ pc' = "chars"]_vars

\* A skipped block of a codepoint that an earlier block had stored.
C10_Witness ==
    /\ pc = "chars" /\ charResult = "skipped"
    /\ NegativeOffsetBlock(charLines)
    /\ Cardinality(LinesOf(charLines, "ENCODING")) = 1
    /\ DeclaredCodePoint(charLines) \in DOMAIN fontDef.charSet

\* ------------------------------------------------------------------------
\* Malformed glyph blocks.

\* The rows of the cell that the block fills from its bitmap lines: the rows
\* that are neither upper nor lower padding.
BitmapRowsNeeded(lines) ==
    Cardinality({y \in 0..(fontDef.fontHeight - 1) :
                    y >= CellPadUpper(lines) /\
                    y < fontDef.fontHeight - CellPadLower(lines)})

\* The block has one bounding box of four numbers, and fewer bitmap lines than
\* rows to fill.
TooFewBitmapRows(lines) ==
    /\ Cardinality(LinesOf(lines, "BBX")) = 1
    /\ Cardinality(LinesOf(lines, "BITMAP")) = 1
    /\ Cardinality(LinesOf(lines, "ENDCHAR")) = 1
    /\ DeclarationsAreNumbers(lines)
    /\ Len(TheLine(lines, "BBX").fields) = 4
    /\ Len(BitmapRows(lines)) < BitmapRowsNeeded(lines)

MalformedBlock(lines) ==
    \/ LinesOf(lines, "ENCODING") = {}
    \/ LinesOf(lines, "BBX") = {}
    \/ LinesOf(lines, "DWIDTH") = {}
    \/ ~DeclarationsAreNumbers(lines)
    \/ TooFewBitmapRows(lines)

\* C11: reading a glyph block that has no ENCODING line, no BBX line, no
\* DWIDTH line, a field that is not a number, or fewer bitmap lines than
\* non-padded rows, makes the parse of the font fail: an exception is raised
\* and no font definition is returned.
C11_MalformedBlockFails ==
    [][(pc = "chars" /\ nChars' = nChars + 1 /\ MalformedBlock(charLines')) =>
          /\ charResult' = "raised"
          /\ pc' = "failed"
          /\ fontDef' = NoFontDef]_vars

\* ------------------------------------------------------------------------
\* The font-wide lines of the file.

\* A FONTBOUNDINGBOX line of four numbers.
DeclaresFontBox(line) ==
    /\ line.kw = "FONTBOUNDINGBOX"
    /\ Len(line.fields) = 4
    /\ \A k \in 1..4 : IsNumber(line.fields[k])

\* C12: the parse of a file fails when the file ends before a FONTBOUNDINGBOX
\* line or before an ENDFONT line after it, so that a font definition is
\* returned only after ENDFONT; the first FONTBOUNDINGBOX line gives the cell
\* width, the cell height and the baseline and sets the monospaced flag; a
\* later FONTBOUNDINGBOX line changes nothing; and after ENDFONT no glyph
\* block is parsed.
C12_FontWideLines ==
    [][/\ fileLine'.kw = "EOF" =>
             pc' = "failed" /\ fontDef' = NoFontDef /\ output' = NoOutput
       /\ pc' \in {"parsed", "encoded"} => fileLine'.kw = "ENDFONT"
       /\ (pc = "start" /\ DeclaresFontBox(fileLine')) =>
             /\ pc' = "chars"
             /\ fontDef'.fontWidth = Declared(fileLine'.fields[1])
             /\ fontDef'.fontHeight = Declared(fileLine'.fields[2])
             /\ fontDef'.fontBaseline = 0 - Declared(fileLine'.fields[4])
             /\ fontDef'.fontMonospaced
       /\ (pc = "chars" /\ fileLine'.kw = "FONTBOUNDINGBOX") =>
             pc' = "chars" /\ fontDef' = fontDef
       /\ (pc = "chars" /\ fileLine'.kw = "ENDFONT") =>
             pc' = "parsed" /\ fontDef' = fontDef
       /\ pc \in {"parsed", "encoded"} =>
             nChars' = nChars /\ fontDef' = fontDef /\ charLines' = <<>>]_vars

\* A file with a FONTBOUNDINGBOX line and glyph blocks that ends without an
\* ENDFONT line.
C12_Witness ==
    /\ pc = "failed" /\ fileLine.kw = "EOF"
    /\ nChars >= 1 /\ charResult = "stored"
    /\ fontDef = NoFontDef

\* ------------------------------------------------------------------------
\* Fonts beyond the supported widths.

\* The advance width that the encoder takes for a codepoint.
AdvanceOf(c) ==
    IF c \in DOMAIN fontDef.charWidths THEN fontDef.charWidths[c]
    ELSE fontDef.fontWidth

\* C13: a font is encoded only if its cell width needs at most 4 octets a row
\* (cell width at most 32) and the advance width of every codepoint of the
\* output range needs at most 4 octets and is at most 255; any other font
\* fails in parsing or in encoding.
C13_UnsupportedFontFails ==
    pc = "encoded" =>
        /\ fontDef.fontWidth <= 32
        /\ \A c \in OutputRange : AdvanceOf(c) <= 32 /\ AdvanceOf(c) <= 255

\* ------------------------------------------------------------------------
\* Glyphs wider than the cell.

\* The codepoints of the output range whose glyph declares an advance width
\* above the cell width, in a font the encoder supports and that has the
\* space glyph.
WiderThanCell ==
    IF fontDef.fontWidth <= 32 /\ SpaceCodePoint \in DOMAIN fontDef.charSet
    THEN {c \in OutputRange \cap DOMAIN fontDef.charWidths :
             /\ c \in DOMAIN fontDef.charSet
             /\ fontDef.charWidths[c] > fontDef.fontWidth
             /\ fontDef.charWidths[c] <= 255}
    ELSE {}

\* C14: a font with a glyph in the output range whose advance width is above
\* the cell width (cell width at most 32, advance width at most 255) is
\* encoded without error; the glyph is stored with rows of ceil(cellWidth/8)
\* octets and its entry of the width table is its advance width.
C14_WiderGlyphAccepted ==
    (pc \in {"encoded", "failed"} /\ output.status # "none"
        /\ WiderThanCell # {}) =>
        /\ pc = "encoded" /\ output.status = "written"
        /\ \A c \in WiderThanCell :
              /\ Len(fontDef.charSet[c]) =
                     fontDef.fontHeight * CeilDiv8(fontDef.fontWidth)
              /\ output.charWidths[Ordinal(c)] = fontDef.charWidths[c]

\* ------------------------------------------------------------------------
\* The monospaced flag.

\* C15: a glyph block that is skipped for the negative x offset of its
\* bounding box leaves the whole font definition as it was, the monospaced
\* flag included, in whatever order the block has its ENCODING, DWIDTH and
\* BBX lines.
C15_SkipLeavesFontDef ==
    [][(pc = "chars" /\ nChars' = nChars + 1 /\ charResult' = "skipped"
            /\ NegativeOffsetBlock(charLines')) =>
          fontDef' = fontDef]_vars

\* C16: while a font is parsed and after it, a set monospaced flag means that
\* every glyph of the mapping has the cell width as its advance width; and a
\* font written in the monospaced layout has fontHeight * ceil(fontWidth/8)
\* octets for every codepoint.
C16_MonospacedWidths ==
    /\ (pc \in {"chars", "parsed", "encoded"} /\ fontDef.fontMonospaced) =>
          \A c \in DOMAIN fontDef.charWidths :
              fontDef.charWidths[c] = fontDef.fontWidth
    /\ (pc = "encoded" /\ output.template = "monospaced") =>
          /\ fontDef.fontMonospaced
          /\ Len(output.charData) = Cardinality(OutputRange)
          /\ \A k \in 1..Len(output.charData) :
                Len(output.charData[k]) =
                    fontDef.fontHeight * CeilDiv8(fontDef.fontWidth)

\* A monospaced font in the middle of its parse, after a stored glyph and a
\* skipped block.
C16_Witness ==
    /\ pc = "chars" /\ fontDef.fontMonospaced
    /\ charResult = "skipped"
    /\ DOMAIN fontDef.charWidths # {}

====
